---- MODULE Spec2Model ----
(***************************************************************************)
(* Automount registry and delayed-expiry scheduler of the .zfs/snapshot    *)
(* control directory (module/os/linux/zfs/zfs_ctldir.c).                   *)
(*                                                                         *)
(* The state is the two AVL trees, the registry rwlock, every              *)
(* zfs_snapentry_t (fields, reference count, se_taskqid_lock), the delay   *)
(* taskq, the mount table seen by the mount/umount helpers, the dataset    *)
(* namespace, the tunables and the call stack of every thread.  One action *)
(* is one step of one function: the statements from one point where the    *)
(* thread can block or be observed by another thread (a lock acquisition,  *)
(* a helper invocation, a wait in the taskq) up to the next one.           *)
(***************************************************************************)
EXTENDS Integers, Sequences, FiniteSets, TLC

\* ---------------------------------------------------------------- bounds
MaxOps == 3
MaxEntries == 2
MaxTasks == 2

\* ------------------------------------------------------ program constants
TASKQID_INVALID == 0
ENOENT == 2
EACCES == 13
EBUSY == 16
EEXIST == 17
EISDIR == 21
ENOSPC == 28
MOUNT_BUSY == 128
ZFSCTL_EXPIRE_SNAPSHOT == 300

\* ------------------------------------------------------------- universes
Callers == {<<"c", 1>>, <<"c", 2>>}
TaskIds == 1..MaxTasks
TaskProc(k) == <<"tq", k>>
Procs == Callers \cup {TaskProc(k) : k \in TaskIds}
NoProc == <<"none", 0>>

EntryIds == 1..MaxEntries
NoEntry == 0

\* the snapshots of one filesystem of one pool, and their component names
Snaps == {1, 2}
Comps == {1, 2, 3}
\* the name of a snapshot that does not exist
NoComp == 0
SnapSpa(s) == 1
SnapObjsetid(s) == 10 + s

\* values the zfs_expire_snapshot tunable and the delay argument take
ExpireValues == {0, ZFSCTL_EXPIRE_SNAPSHOT}
DelayArgs == {0, 60}
AdminValues == {0, 1}

\* exit statuses of the mount helper: (exitcode << 8) + signal
HelperOk == 0
HelperBusy == MOUNT_BUSY * 256
HelperFail == 1 * 256

VARIABLES
    zfs_snapshots_by_name,      \* set of entries linked in the by-name tree
    zfs_snapshots_by_objsetid,  \* set of entries linked in the by-objsetid tree
    zfs_snapshot_lock,          \* [w: writer or NoProc, r: set of readers]
    zfs_expire_snapshot,        \* tunable
    zfs_admin_snapshot,         \* tunable
    se,                         \* EntryIds -> zfs_snapentry_t
    tq,                         \* TaskIds -> delayed task of system_delay_taskq
    stk,                        \* Procs -> call stack (sequence of frames)
    mnt,                        \* Snaps -> [st: "none" | "mounted" | "teardown", at: path]
    dsname,                     \* Snaps -> component name in the dataset namespace
    fault,                      \* "none" | "avl_add" | "avl_remove" | "uaf"
    ops,                        \* number of operations started so far
    hist                        \* history: observations the claims talk about

vars == <<zfs_snapshots_by_name, zfs_snapshots_by_objsetid, zfs_snapshot_lock,
          zfs_expire_snapshot, zfs_admin_snapshot, se, tq, stk, mnt, dsname,
          fault, ops, hist>>

\* ---------------------------------------------------------------- strings
\* A string is a sequence of byte values; strcmp compares byte-wise.
RECURSIVE strcmp(_, _)
strcmp(a, b) ==
    IF a = << >> /\ b = << >> THEN 0
    ELSE IF a = << >> THEN -1
    ELSE IF b = << >> THEN 1
    ELSE IF Head(a) < Head(b) THEN -1
    ELSE IF Head(a) > Head(b) THEN 1
    ELSE strcmp(Tail(a), Tail(b))

FsName == <<112, 47, 102>>
CompStr(c) == <<48 + c>>
NoStr == << >>

\* zfsctl_snapshot_name: "pool/dataset@snap_name"
zfsctl_snapshot_name(snap_name) == FsName \o <<64>> \o snap_name

\* the mount point "<mntpoint>/.zfs/snapshot/<snap_name>"
SnapPath(snap_name) == <<47, 46>> \o snap_name

\* ------------------------------------------------------------ comparators
snapentry_compare_by_name(name_a, name_b) ==
    LET ret == strcmp(name_a, name_b)
    IN  IF ret < 0 THEN -1 ELSE IF ret > 0 THEN 1 ELSE 0

snapentry_compare_by_objsetid(spa_a, obj_a, spa_b, obj_b) ==
    IF spa_a # spa_b THEN (IF spa_a < spa_b THEN -1 ELSE 1)
    ELSE IF obj_a < obj_b THEN -1
    ELSE IF obj_a > obj_b THEN 1
    ELSE 0

\* ------------------------------------------------------------ the entries
FreeSe == [st |-> "free", se_name |-> NoStr, se_path |-> NoStr, se_spa |-> 0,
           se_objsetid |-> 0, se_taskqid |-> TASKQID_INVALID,
           se_taskqid_lock |-> NoProc, se_refcount |-> 0]

\* what is left of an entry after kmem_free
FreedSe == [FreeSe EXCEPT !.st = "freed"]

Live(e) == e # NoEntry /\ se[e].st = "live"

\* zfsctl_snapshot_alloc: no reference is taken
zfsctl_snapshot_alloc(full_name, full_path, spa, objsetid) ==
    [st |-> "live", se_name |-> full_name, se_path |-> full_path, se_spa |-> spa,
     se_objsetid |-> objsetid, se_taskqid |-> TASKQID_INVALID,
     se_taskqid_lock |-> NoProc, se_refcount |-> 0]

NewEntry == IF \E e \in EntryIds : se[e].st = "free"
            THEN CHOOSE e \in EntryIds : se[e].st = "free" /\
                     \A f \in EntryIds : se[f].st = "free" => e <= f
            ELSE NoEntry

\* faulty variant: the hold is not counted
zfs_refcount_add_none(n) == n

zfs_refcount_add(n) == n + 1

\* faulty variant: a release drops two references
zfs_refcount_remove_two(n) == n - 2

zfs_refcount_remove(n) == n - 1

\* faulty variant: no reference is taken
zfsctl_snapshot_hold_none(s, e) == s

\* zfsctl_snapshot_hold on entry e of table s
zfsctl_snapshot_hold(s, e) ==
    [s EXCEPT ![e].se_refcount = zfs_refcount_add(@)]

\* faulty variant: the reference is kept
zfsctl_snapshot_rele_leak(s, e) == s

\* zfsctl_snapshot_rele: the entry is freed when the count drops to zero
zfsctl_snapshot_rele(s, e) ==
    IF zfs_refcount_remove(s[e].se_refcount) = 0
    THEN [s EXCEPT ![e] = FreedSe]
    ELSE [s EXCEPT ![e].se_refcount = zfs_refcount_remove(@)]

\* -------------------------------------------------------------- the trees
avl_find_by_name(tree, snapname) ==
    LET hit == {e \in tree : snapentry_compare_by_name(se[e].se_name, snapname) = 0}
    IN  IF hit = {} THEN NoEntry ELSE CHOOSE e \in hit : TRUE

avl_find_by_objsetid(tree, spa, objsetid) ==
    LET hit == {e \in tree : snapentry_compare_by_objsetid(
                    se[e].se_spa, se[e].se_objsetid, spa, objsetid) = 0}
    IN  IF hit = {} THEN NoEntry ELSE CHOOSE e \in hit : TRUE

avl_add(tree, e) == tree \cup {e}
avl_remove(tree, e) == tree \ {e}

\* ----------------------------------------------------------- the rwlocks
\* faulty variant: a reader does not wait for the writer
CanRead_always == TRUE

\* rw_enter(&zfs_snapshot_lock, RW_READER) is granted
CanRead == zfs_snapshot_lock.w = NoProc
\* rw_enter(&zfs_snapshot_lock, RW_WRITER) is granted
CanWrite == zfs_snapshot_lock.w = NoProc /\ zfs_snapshot_lock.r = {}

\* faulty variant: the reader does not take the lock
RdEnter_none(p) == zfs_snapshot_lock

RdEnter(p) == [zfs_snapshot_lock EXCEPT !.r = @ \cup {p}]
RdExit(p) == [zfs_snapshot_lock EXCEPT !.r = @ \ {p}]
\* faulty variant: the writer goes on without the lock
WrEnter_unlocked(p) == zfs_snapshot_lock
WrEnter(p) == [zfs_snapshot_lock EXCEPT !.w = p]
WrExit(p) == [zfs_snapshot_lock EXCEPT !.w = NoProc]

\* ----------------------------------------------------------- call stacks
\* One frame per active function: fn the function, pc the next step, and its
\* locals: se the entry pointer, nm/nm2 names, snap the snapshot mounted on
\* the followed path, spa/obj the saved identifiers, dl a delay or task id,
\* err the error local, hs the exit status of the helper (-1: not invoked),
\* rv the value returned by the last callee (or by fn itself when done).
Frame(fn, pc, e, nm, dl) ==
    [fn |-> fn, pc |-> pc, se |-> e, nm |-> nm, nm2 |-> NoStr, snap |-> 0,
     spa |-> 0, obj |-> 0, dl |-> dl, err |-> 0, hs |-> -1, rv |-> 0]

Idle(p) == stk[p] = << >>
Top(p) == Head(stk[p])
\* the thread p is about to run step pc; a faulted kernel runs nothing
At(p, pc) == fault = "none" /\ stk[p] # << >> /\ Head(stk[p]).pc = pc

\* replace the running frame
Goto(p, f) == [stk EXCEPT ![p] = <<f>> \o Tail(@)]
\* call: push the callee; the caller continues as frame cont on return
Call(p, cont, f) == [stk EXCEPT ![p] = <<f, cont>> \o Tail(@)]
\* what stays visible of an outermost call once it has returned
Done(f, v) == [Frame(f.fn, "done", NoEntry, NoStr, 0) EXCEPT !.hs = f.hs, !.rv = v]
\* return v from the running frame f: to the caller's frame, or leave the
\* outermost frame at "done"
ReturnAs(p, f, v) ==
    [stk EXCEPT ![p] =
        IF Len(@) = 1 THEN <<Done(f, v)>>
        ELSE <<[@[2] EXCEPT !.rv = v]>> \o Tail(Tail(@))]
Return(p, v) == ReturnAs(p, Head(stk[p]), v)

\* ----------------------------------------------------------------- faults
\* A fatal assertion (avl_add of a duplicate, avl_remove of an absent node)
\* or a use of freed memory stops the system: fault records which.
\* a tree traversal reads the key of every node it visits
Dangling(tree) == \E e \in tree : se[e].st # "live"

\* -------------------------------------------------------------- the world
MountedAt(path) == {s \in Snaps : mnt[s].st = "mounted" /\ mnt[s].at = path}
Named(snap_name) == {s \in Snaps : CompStr(dsname[s]) = snap_name}

\* a thread between follow_down_one() and path_put() holds the mount busy
Pinned(s) == \E p \in Procs : \E i \in 1..Len(stk[p]) :
    stk[p][i].fn = "mount" /\ stk[p][i].snap = s

\* entries and task ids still to be used by calls already under way
AllocPending == Cardinality({p \in Procs : \E i \in 1..Len(stk[p]) :
    stk[p][i].fn = "mount" /\
    stk[p][i].pc \in {"m_ismounted", "m_helper", "m_follow", "m_add_name"}})
DispatchPending == Cardinality({p \in Procs : \E i \in 1..Len(stk[p]) :
    \/ stk[p][i].fn = "mount" /\ stk[p][i].pc # "done"
    \/ stk[p][i].fn = "unmount_delay" /\ stk[p][i].pc # "done"
                                      /\ stk[p][i].dl > 0
    \/ stk[p][i].fn = "expire"})
FreeEntries == Cardinality({e \in EntryIds : se[e].st = "free"})
FreeTasks == Cardinality({k \in TaskIds : tq[k].st = "free"})
NewTask == CHOOSE k \in TaskIds :
    tq[k].st = "free" /\ \A j \in TaskIds : tq[j].st = "free" => k <= j

\* the calling threads are interchangeable: a new call runs on the first
\* thread that is free
Free(p) == Idle(p) \/ At(p, "done")
CanStart(p) ==
    /\ fault = "none" /\ ops < MaxOps /\ Free(p)
    /\ \A q \in Callers : Free(q) => p[2] <= q[2]
Begin(p, f) == stk' = [stk EXCEPT ![p] = <<f>>] /\ ops' = ops + 1

\* ------------------------------------------------------------------- Init
FreeTask == [st |-> "free", se |-> NoEntry, dl |-> 0]

Init ==
    /\ zfs_snapshots_by_name = {}
    /\ zfs_snapshots_by_objsetid = {}
    /\ zfs_snapshot_lock = [w |-> NoProc, r |-> {}]
    /\ zfs_expire_snapshot \in ExpireValues   \* settable when the module is loaded
    /\ zfs_admin_snapshot = 0
    /\ se = [e \in EntryIds |-> FreeSe]
    /\ tq = [k \in TaskIds |-> FreeTask]
    /\ stk = [p \in Procs |-> << >>]
    /\ mnt = [s \in Snaps |-> [st |-> "none", at |-> NoStr]]
    /\ dsname = [s \in Snaps |-> s]
    /\ fault = "none"
    /\ ops = 0
    /\ hist = [relc |-> [k \in 0..MaxTasks |-> 0],
               relf |-> [k \in 0..MaxTasks |-> 0]]

trees == <<zfs_snapshots_by_name, zfs_snapshots_by_objsetid>>
tunables == <<zfs_expire_snapshot, zfs_admin_snapshot>>
world == <<mnt, dsname>>
meta == <<fault, ops>>

\* ------------------------------------------- zfsctl_snapshot_ismounted
\* faulty variant: the registry is not consulted
zfsctl_snapshot_ismounted_never(snapname) == FALSE

\* find by name under the read lock, drop the reference again
zfsctl_snapshot_ismounted(snapname) ==
    avl_find_by_name(zfs_snapshots_by_name, snapname) # NoEntry

\* ----------------------------------------------- zfsctl_snapshot_mount
\* A lookup has produced the dentry of .zfs/snapshot/<c>.
StartMount(p, c) ==
    /\ CanStart(p)
    /\ Named(CompStr(c)) # {}
    /\ AllocPending < FreeEntries
    /\ DispatchPending < FreeTasks
    /\ Begin(p, Frame("mount", "m_ismounted", NoEntry, CompStr(c), 0))
    /\ UNCHANGED <<trees, zfs_snapshot_lock, tunables, se, tq, world, fault, hist>>

\* if (zfsctl_snapshot_ismounted(full_name)) return 0
mount_ismounted(p) ==
    /\ At(p, "m_ismounted") /\ CanRead
    /\ LET full_name == zfsctl_snapshot_name(Top(p).nm)
           e == avl_find_by_name(zfs_snapshots_by_name, full_name)
       IN  IF Dangling(zfs_snapshots_by_name)
           THEN UNCHANGED <<se, stk>> /\ fault' = "uaf"
           ELSE /\ se' = IF e # NoEntry
                         THEN zfsctl_snapshot_rele(zfsctl_snapshot_hold(se, e), e)
                         ELSE se
                /\ stk' = IF zfsctl_snapshot_ismounted(full_name)
                          THEN Return(p, 0)
                          ELSE Goto(p, [Top(p) EXCEPT !.pc = "m_helper"])
                /\ UNCHANGED fault
    /\ UNCHANGED <<trees, zfs_snapshot_lock, tunables, tq, world, ops, hist>>

\* What "mount -t zfs <full_name> <full_path>" can answer: it mounts the
\* snapshot of that name when it is mounted nowhere and the path is free;
\* it reports busy while the snapshot is mounted, being torn down or the
\* path is taken; it can fail for any other reason at any time.
MountStatuses(snap_name) ==
    {HelperFail}
    \cup (IF \E s \in Named(snap_name) : mnt[s].st = "none"
             /\ MountedAt(SnapPath(snap_name)) = {}
          THEN {HelperOk} ELSE {})
    \cup (IF \/ \E s \in Named(snap_name) : mnt[s].st # "none"
             \/ MountedAt(SnapPath(snap_name)) # {}
          THEN {HelperBusy} ELSE {})

\* faulty variant: the busy bit is never seen
BusyBit_never(status) == FALSE

\* error & (MOUNT_BUSY << 8)
BusyBit(status) == (status \div (MOUNT_BUSY * 256)) % 2 = 1

\* faulty variant: a busy helper is reported like any other failure
MountError_busy_fails(status) == IF status # 0 THEN EISDIR ELSE 0

\* the error zfsctl_snapshot_mount derives from a nonzero helper status
MountError(status) == IF ~BusyBit(status) THEN EISDIR ELSE 0

mount_helper(p) ==
    /\ At(p, "m_helper")
    /\ \E status \in MountStatuses(Top(p).nm) :
        /\ mnt' = IF status = HelperOk
                  THEN [s \in Snaps |->
                          IF s \in Named(Top(p).nm)
                          THEN [st |-> "mounted", at |-> SnapPath(Top(p).nm)]
                          ELSE mnt[s]]
                  ELSE mnt
        /\ stk' = IF status # 0
                  THEN ReturnAs(p, [Top(p) EXCEPT !.hs = status],
                                MountError(status))
                  ELSE Goto(p, [Top(p) EXCEPT !.pc = "m_follow", !.hs = status])
    /\ UNCHANGED <<trees, zfs_snapshot_lock, tunables, se, tq, dsname, meta, hist>>

\* follow_down_one(): is something mounted on the dentry
mount_follow(p) ==
    /\ At(p, "m_follow")
    /\ LET on == MountedAt(SnapPath(Top(p).nm))
       IN  stk' = IF on = {} THEN Return(p, 0)
                  ELSE Goto(p, [Top(p) EXCEPT !.pc = "m_add_name",
                                              !.snap = CHOOSE s \in on : TRUE])
    /\ UNCHANGED <<trees, zfs_snapshot_lock, tunables, se, tq, world, meta, hist>>

\* rw_enter(WRITER), zfsctl_snapshot_alloc, then zfsctl_snapshot_add: the
\* hold and the first avl_add
mount_add_name(p) ==
    /\ At(p, "m_add_name") /\ CanWrite
    /\ LET f == Top(p)
           e == NewEntry
           full_name == zfsctl_snapshot_name(f.nm)
       IN  IF Dangling(zfs_snapshots_by_name)
           THEN /\ fault' = "uaf"
                /\ UNCHANGED <<se, stk, zfs_snapshots_by_name, zfs_snapshot_lock>>
           ELSE IF avl_find_by_name(zfs_snapshots_by_name, full_name) # NoEntry
           THEN /\ fault' = "avl_add"
                /\ UNCHANGED <<se, stk, zfs_snapshots_by_name, zfs_snapshot_lock>>
           ELSE /\ zfs_snapshot_lock' = WrEnter(p)
                /\ se' = zfsctl_snapshot_hold(
                            [se EXCEPT ![e] = zfsctl_snapshot_alloc(full_name,
                                SnapPath(f.nm), SnapSpa(f.snap),
                                SnapObjsetid(f.snap))], e)
                /\ zfs_snapshots_by_name' = avl_add(zfs_snapshots_by_name, e)
                /\ stk' = Goto(p, [f EXCEPT !.pc = "m_add_obj", !.se = e])
                /\ UNCHANGED fault
    /\ UNCHANGED <<zfs_snapshots_by_objsetid, tunables, tq, world, ops, hist>>

\* ---------------------------------- zfsctl_snapshot_unmount_delay_impl
\* faulty variant: a delay of 0 dispatches a task
DelayDisabled_negative(delay) == delay < 0

\* if (delay <= 0) return
DelayDisabled(delay) == delay <= 0

\* faulty variant: a task is dispatched whether or not one is scheduled
AlreadyDispatched_never(taskqid) == FALSE

\* a task is already scheduled for the entry
AlreadyDispatched(taskqid) == taskqid # TASKQID_INVALID

\* taskq_dispatch_delay(system_delay_taskq, snapentry_expire, se, TQ_SLEEP,
\* ddi_get_lbolt() + delay * HZ): a new task, pending until its timer fires
taskq_dispatch_delay(q, k, e, delay) ==
    [q EXCEPT ![k] = [st |-> "pending", se |-> e, dl |-> delay]]

\* rw_enter(se_taskqid_lock, WRITER) is granted, or is not reached
ArmReady(e, delay) == DelayDisabled(delay) \/ se[e].se_taskqid_lock = NoProc

Dispatches(e, delay) ==
    ~DelayDisabled(delay) /\ ~AlreadyDispatched(se[e].se_taskqid)

\* faulty variant: the task is dispatched without a reference
ArmHold_none(s, e) == s

\* the reference the dispatched task holds on its entry
ArmHold(s, e) == zfsctl_snapshot_hold(s, e)

\* the entries after zfsctl_snapshot_unmount_delay_impl(e, delay): no-op;
\* or hold, find a task scheduled, release; or hold and dispatch
ArmSe(e, delay) ==
    IF DelayDisabled(delay) THEN se
    ELSE IF AlreadyDispatched(se[e].se_taskqid)
    THEN zfsctl_snapshot_rele(ArmHold(se, e), e)
    ELSE [ArmHold(se, e) EXCEPT ![e].se_taskqid = NewTask]

\* the taskq after zfsctl_snapshot_unmount_delay_impl(e, delay)
ArmTq(e, delay) ==
    IF Dispatches(e, delay) THEN taskq_dispatch_delay(tq, NewTask, e, delay)
    ELSE tq

\* zfsctl_snapshot_add: the second avl_add; then
\* zfsctl_snapshot_unmount_delay_impl(se, zfs_expire_snapshot)
mount_add_obj(p) ==
    /\ At(p, "m_add_obj")
    /\ LET f == Top(p)
       IN  IF Dangling(zfs_snapshots_by_objsetid)
           THEN /\ fault' = "uaf"
                /\ UNCHANGED <<se, tq, stk, zfs_snapshots_by_objsetid>>
           ELSE IF avl_find_by_objsetid(zfs_snapshots_by_objsetid,
                       se[f.se].se_spa, se[f.se].se_objsetid) # NoEntry
           THEN /\ fault' = "avl_add"
                /\ UNCHANGED <<se, tq, stk, zfs_snapshots_by_objsetid>>
           ELSE /\ zfs_snapshots_by_objsetid' =
                       avl_add(zfs_snapshots_by_objsetid, f.se)
                /\ se' = ArmSe(f.se, zfs_expire_snapshot)
                /\ tq' = ArmTq(f.se, zfs_expire_snapshot)
                /\ stk' = Goto(p, [f EXCEPT !.pc = "m_unlock"])
                /\ UNCHANGED fault
    /\ UNCHANGED <<zfs_snapshots_by_name, zfs_snapshot_lock, tunables, world,
                   ops, hist>>

\* rw_exit, path_put
mount_unlock(p) ==
    /\ At(p, "m_unlock")
    /\ zfs_snapshot_lock' = WrExit(p)
    /\ stk' = Return(p, 0)
    /\ UNCHANGED <<trees, tunables, se, tq, world, meta, hist>>

\* -------------------------------------- zfsctl_snapshot_unmount_cancel
\* taskq_cancel_id(system_delay_taskq, id): 0 when the pending task was
\* removed before it ran, EBUSY after waiting for a running task to
\* complete, ENOENT when there is no such task.
taskq_cancel_id(q, id) ==
    IF id \in TaskIds /\ q[id].st = "pending" THEN 0
    ELSE IF id \in TaskIds /\ q[id].st = "running" THEN EBUSY
    ELSE ENOENT

\* faulty variant: the id is invalidated before it is handed to the taskq
CancelId_invalid(e) == TASKQID_INVALID

\* the id zfsctl_snapshot_unmount_cancel hands to taskq_cancel_id
CancelId(e) == se[e].se_taskqid

\* faulty variant: the reference is dropped whatever taskq_cancel_id says
CancelReleases_always(err) == TRUE

\* cancel drops the reference of the dispatch
CancelReleases(err) == err = 0

\* the entries when taskq_cancel_id has returned err for task id:
\* se_taskqid is invalidated, the lock released, the reference dropped
CancelSe(s, e, err) ==
    LET cleared == [s EXCEPT ![e].se_taskqid = TASKQID_INVALID,
                             ![e].se_taskqid_lock = NoProc]
    IN  IF CancelReleases(err) THEN zfsctl_snapshot_rele(cleared, e) ELSE cleared

CancelHist(id, err) ==
    IF CancelReleases(err) THEN [hist EXCEPT !.relc[id] = @ + 1] ELSE hist

\* rw_enter(se_taskqid_lock), taskq_cancel_id(): the whole function when
\* the task is not running, else the caller waits inside taskq_cancel_id
\* with the lock held
cancel_lock(p) ==
    /\ At(p, "c_lock")
    /\ LET f == Top(p)
           id == CancelId(f.se)
           err == taskq_cancel_id(tq, id)
       IN  /\ se[f.se].se_taskqid_lock = NoProc
           /\ IF ~Live(f.se) THEN UNCHANGED <<se, stk, tq, hist>> /\ fault' = "uaf"
              ELSE IF err = EBUSY
              THEN /\ se' = [se EXCEPT ![f.se].se_taskqid_lock = p]
                   /\ stk' = Goto(p, [f EXCEPT !.pc = "c_wait", !.dl = id])
                   /\ UNCHANGED <<tq, fault, hist>>
              ELSE /\ tq' = IF err = 0 THEN [tq EXCEPT ![id].st = "cancelled"]
                            ELSE tq
                   /\ se' = CancelSe(se, f.se, err)
                   /\ hist' = CancelHist(id, err)
                   /\ stk' = Return(p, err)
                   /\ UNCHANGED fault
    /\ UNCHANGED <<trees, zfs_snapshot_lock, tunables, world, ops>>

\* taskq_cancel_id returns EBUSY once the running task has completed
cancel_wait(p) ==
    /\ At(p, "c_wait")
    /\ LET f == Top(p)
       IN  /\ tq[f.dl].st = "done"
           /\ IF ~Live(f.se) THEN UNCHANGED <<se, stk, hist>> /\ fault' = "uaf"
              ELSE /\ se' = CancelSe(se, f.se, EBUSY)
                   /\ hist' = CancelHist(f.dl, EBUSY)
                   /\ stk' = Return(p, EBUSY)
                   /\ UNCHANGED fault
    /\ UNCHANGED <<trees, zfs_snapshot_lock, tunables, tq, world, ops>>

\* ----------------------------------------------------- snapentry_expire
\* The timer of a pending task fires: a taskq thread runs the callback.
\* spa and objsetid are read from the entry, then the tunable is tested.
ExpireDisabled(expire) == expire <= 0

\* faulty variant: a cancelled task is run all the same
TimerFires_cancelled(q, k) == q[k].st \in {"pending", "cancelled"}

\* the taskq runs a delayed task once, when its timer fires while it is
\* still pending
TimerFires(q, k) == q[k].st = "pending"

expire_fire(k) ==
    /\ fault = "none"
    /\ TimerFires(tq, k)
    /\ DispatchPending < FreeTasks
    /\ tq' = [tq EXCEPT ![k].st = "running"]
    /\ LET e == tq[k].se
       IN  IF ~Live(e) THEN UNCHANGED stk /\ fault' = "uaf"
           ELSE /\ stk' = [stk EXCEPT ![TaskProc(k)] =
                    <<[Frame("expire",
                             IF ExpireDisabled(zfs_expire_snapshot)
                             THEN "e_early" ELSE "e_lock", e, NoStr, k)
                       EXCEPT !.spa = se[e].se_spa, !.obj = se[e].se_objsetid]>>]
                /\ UNCHANGED fault
    /\ UNCHANGED <<trees, zfs_snapshot_lock, tunables, se, world, ops, hist>>

\* the callback has returned: the task is gone from the taskq
Complete(p, k) ==
    /\ stk' = [stk EXCEPT ![p] = << >>]
    /\ tq' = [tq EXCEPT ![k].st = "done"]

\* zfs_expire_snapshot <= 0: release and return
expire_early(p) ==
    /\ At(p, "e_early")
    /\ LET f == Top(p)
       IN  IF ~Live(f.se) THEN UNCHANGED <<se, stk, tq, hist>> /\ fault' = "uaf"
           ELSE /\ se' = zfsctl_snapshot_rele(se, f.se)
                /\ hist' = [hist EXCEPT !.relf[f.dl] = @ + 1]
                /\ Complete(p, f.dl)
                /\ UNCHANGED fault
    /\ UNCHANGED <<trees, zfs_snapshot_lock, tunables, world, ops>>

\* faulty variant: the callback leaves se_taskqid as it is
ExpireClears_keep(taskqid) == taskqid

\* the value snapentry_expire stores in se_taskqid
ExpireClears(taskqid) == TASKQID_INVALID

\* se_taskqid = TASKQID_INVALID under se_taskqid_lock; then
\* zfsctl_snapshot_unmount(se->se_name, MNT_EXPIRE) is entered
expire_lock(p) ==
    /\ At(p, "e_lock")
    /\ LET f == Top(p)
       IN  /\ se[f.se].se_taskqid_lock = NoProc
           /\ IF ~Live(f.se) THEN UNCHANGED <<se, stk>> /\ fault' = "uaf"
              ELSE /\ se' = [se EXCEPT ![f.se].se_taskqid = ExpireClears(@)]
                   /\ stk' = Call(p, [f EXCEPT !.pc = "e_rele"],
                                  Frame("unmount", "u_find", NoEntry,
                                        se[f.se].se_name, 0))
                   /\ UNCHANGED fault
    /\ UNCHANGED <<trees, zfs_snapshot_lock, tunables, tq, world, ops, hist>>

expire_rele(p) ==
    /\ At(p, "e_rele")
    /\ LET f == Top(p)
       IN  IF ~Live(f.se) THEN UNCHANGED <<se, stk, hist>> /\ fault' = "uaf"
           ELSE /\ se' = zfsctl_snapshot_rele(se, f.se)
                /\ hist' = [hist EXCEPT !.relf[f.dl] = @ + 1]
                /\ stk' = Goto(p, [f EXCEPT !.pc = "e_refind", !.se = NoEntry])
                /\ UNCHANGED fault
    /\ UNCHANGED <<trees, zfs_snapshot_lock, tunables, tq, world, ops>>

\* rw_enter(READER), find by objsetid: is the entry still there
expire_refind(p) ==
    /\ At(p, "e_refind") /\ CanRead
    /\ LET f == Top(p)
           e == avl_find_by_objsetid(zfs_snapshots_by_objsetid, f.spa, f.obj)
       IN  IF Dangling(zfs_snapshots_by_objsetid)
           THEN UNCHANGED <<se, stk, tq, zfs_snapshot_lock>> /\ fault' = "uaf"
           ELSE IF e = NoEntry
           THEN /\ Complete(p, f.dl)
                /\ UNCHANGED <<se, zfs_snapshot_lock, fault>>
           ELSE /\ zfs_snapshot_lock' = RdEnter(p)
                /\ se' = zfsctl_snapshot_hold(se, e)
                /\ stk' = Goto(p, [f EXCEPT !.pc = "e_rearm", !.se = e])
                /\ UNCHANGED <<tq, fault>>
    /\ UNCHANGED <<trees, tunables, world, ops, hist>>

\* faulty variant: the delay of the task that has fired is used again
RearmDelay_fired(fired) == fired

\* the delay snapentry_expire re-arms with: the tunable as it is now
RearmDelay(fired) == zfs_expire_snapshot

\* zfsctl_snapshot_unmount_delay_impl(se, zfs_expire_snapshot)
expire_rearm(p) ==
    /\ At(p, "e_rearm")
    /\ LET f == Top(p)
           delay == RearmDelay(tq[f.dl].dl)
       IN  /\ ArmReady(f.se, delay)
           /\ IF ~Live(f.se) THEN UNCHANGED <<se, stk, tq>> /\ fault' = "uaf"
              ELSE /\ se' = ArmSe(f.se, delay)
                   /\ tq' = ArmTq(f.se, delay)
                   /\ stk' = Goto(p, [f EXCEPT !.pc = "e_rele2"])
                   /\ UNCHANGED fault
    /\ UNCHANGED <<trees, zfs_snapshot_lock, tunables, world, ops, hist>>

\* zfsctl_snapshot_rele, rw_exit, return
expire_rele2(p) ==
    /\ At(p, "e_rele2")
    /\ LET f == Top(p)
       IN  IF ~Live(f.se)
           THEN UNCHANGED <<se, stk, tq, zfs_snapshot_lock>> /\ fault' = "uaf"
           ELSE /\ se' = zfsctl_snapshot_rele(se, f.se)
                /\ zfs_snapshot_lock' = RdExit(p)
                /\ Complete(p, f.dl)
                /\ UNCHANGED fault
    /\ UNCHANGED <<trees, tunables, world, ops, hist>>

\* ---------------------------------------------- zfsctl_snapshot_unmount
\* An administrative unmount of the snapshot named c (MNT_FORCE).
StartUnmount(p, c) ==
    /\ CanStart(p)
    /\ Begin(p, Frame("unmount", "u_find", NoEntry,
                      zfsctl_snapshot_name(CompStr(c)), 0))
    /\ UNCHANGED <<trees, zfs_snapshot_lock, tunables, se, tq, world, fault, hist>>

\* faulty variant: a name that is not registered is reported as unmounted
UnmountFindError_none(e) == 0

\* what zfsctl_snapshot_unmount returns when find_by_name returns NULL
UnmountFindError(e) == IF e = NoEntry THEN ENOENT ELSE 0

\* faulty variant: the read lock is kept after the lookup
UnmountFindLock_kept(p) == RdEnter(p)

\* the registry lock once zfsctl_snapshot_unmount has looked the name up:
\* rw_enter(READER) ... rw_exit, it is taken and dropped around the lookup
UnmountFindLock(p) == zfs_snapshot_lock

\* rw_enter(READER), find by name, rw_exit
unmount_find(p) ==
    /\ At(p, "u_find") /\ CanRead
    /\ zfs_snapshot_lock' = UnmountFindLock(p)
    /\ LET f == Top(p)
           e == avl_find_by_name(zfs_snapshots_by_name, f.nm)
       IN  IF Dangling(zfs_snapshots_by_name)
           THEN UNCHANGED <<se, stk>> /\ fault' = "uaf"
           ELSE IF e = NoEntry
           THEN stk' = Return(p, UnmountFindError(e)) /\ UNCHANGED <<se, fault>>
           ELSE /\ se' = zfsctl_snapshot_hold(se, e)
                /\ stk' = Goto(p, [f EXCEPT !.pc = "u_helper", !.se = e])
                /\ UNCHANGED fault
    /\ UNCHANGED <<trees, tunables, tq, world, ops, hist>>

\* What "umount -t zfs -n <se_path>" can answer: it unmounts what is
\* mounted there unless the mount is held busy; it can always fail.
\* A successful umount tears the snapshot's filesystem down, which runs
\* zfsctl_destroy() before the helper exits.
UmountCan(path) == {s \in MountedAt(path) : ~Pinned(s)}

\* faulty variant: a failed helper is reported as success
UmountError_zero(status) == 0

\* a nonzero exit status is taken to mean busy
UmountError(status) == IF status # 0 THEN EBUSY ELSE 0

\* the helper fails: release the entry and return the error
unmount_helper_fail(p) ==
    /\ At(p, "u_helper")
    /\ LET f == Top(p)
       IN  IF ~Live(f.se) THEN UNCHANGED <<se, stk>> /\ fault' = "uaf"
           ELSE /\ se' = zfsctl_snapshot_rele(se, f.se)
                /\ stk' = ReturnAs(p, [f EXCEPT !.hs = HelperFail],
                                   UmountError(HelperFail))
                /\ UNCHANGED fault
    /\ UNCHANGED <<trees, zfs_snapshot_lock, tunables, tq, world, ops, hist>>

\* the helper unmounts the snapshot: its filesystem is torn down
unmount_helper_ok(p) ==
    /\ At(p, "u_helper")
    /\ LET f == Top(p)
       IN  /\ Live(f.se)
           /\ \E s \in UmountCan(se[f.se].se_path) :
               /\ mnt' = [mnt EXCEPT ![s].st = "teardown"]
               /\ stk' = Call(p, [f EXCEPT !.pc = "u_exited", !.snap = s,
                                           !.hs = HelperOk],
                              Frame("destroy", "d_rm_name", NoEntry, NoStr, s))
    /\ UNCHANGED <<trees, zfs_snapshot_lock, tunables, se, tq, dsname, meta, hist>>

\* the helper has exited with status 0: release the entry and return
unmount_exited(p) ==
    /\ At(p, "u_exited")
    /\ LET f == Top(p)
       IN  /\ mnt' = [mnt EXCEPT ![f.snap] = [st |-> "none", at |-> NoStr]]
           /\ IF ~Live(f.se) THEN UNCHANGED <<se, stk>> /\ fault' = "uaf"
              ELSE /\ se' = zfsctl_snapshot_rele(se, f.se)
                   /\ stk' = Return(p, UmountError(HelperOk))
                   /\ UNCHANGED fault
    /\ UNCHANGED <<trees, zfs_snapshot_lock, tunables, tq, dsname, ops, hist>>

\* ------------------------------------------------------- zfsctl_destroy
\* Runs when the filesystem of snapshot f.dl is unmounted (z_issnap).
\* rw_enter(WRITER), find by objsetid, zfsctl_snapshot_remove: the first
\* avl_remove; nothing is found: rw_exit and return
destroy_rm_name(p) ==
    /\ At(p, "d_rm_name") /\ CanWrite
    /\ LET f == Top(p)
           e == avl_find_by_objsetid(zfs_snapshots_by_objsetid,
                                     SnapSpa(f.dl), SnapObjsetid(f.dl))
       IN  IF Dangling(zfs_snapshots_by_objsetid)
           THEN /\ fault' = "uaf"
                /\ UNCHANGED <<se, stk, zfs_snapshot_lock, zfs_snapshots_by_name>>
           ELSE IF e = NoEntry
           THEN /\ stk' = Return(p, 0)
                /\ UNCHANGED <<se, zfs_snapshot_lock, fault, zfs_snapshots_by_name>>
           ELSE IF e \notin zfs_snapshots_by_name
           THEN /\ fault' = "avl_remove"
                /\ UNCHANGED <<se, stk, zfs_snapshot_lock, zfs_snapshots_by_name>>
           ELSE /\ zfs_snapshot_lock' = WrEnter(p)
                /\ se' = zfsctl_snapshot_hold(se, e)
                /\ zfs_snapshots_by_name' = avl_remove(zfs_snapshots_by_name, e)
                /\ stk' = Goto(p, [f EXCEPT !.pc = "d_rm_obj", !.se = e])
                /\ UNCHANGED fault
    /\ UNCHANGED <<zfs_snapshots_by_objsetid, tunables, tq, world, ops, hist>>

\* zfsctl_snapshot_remove: the second avl_remove and the release; rw_exit;
\* then zfsctl_snapshot_unmount_cancel is entered
destroy_rm_obj(p) ==
    /\ At(p, "d_rm_obj")
    /\ LET f == Top(p)
       IN  IF f.se \notin zfs_snapshots_by_objsetid
           THEN /\ fault' = "avl_remove"
                /\ UNCHANGED <<zfs_snapshots_by_objsetid, se, zfs_snapshot_lock, stk>>
           ELSE IF ~Live(f.se)
           THEN /\ fault' = "uaf"
                /\ UNCHANGED <<zfs_snapshots_by_objsetid, se, zfs_snapshot_lock, stk>>
           ELSE /\ zfs_snapshots_by_objsetid' =
                       avl_remove(zfs_snapshots_by_objsetid, f.se)
                /\ se' = zfsctl_snapshot_rele(se, f.se)
                /\ zfs_snapshot_lock' = WrExit(p)
                /\ stk' = Call(p, [f EXCEPT !.pc = "d_rele"],
                               Frame("cancel", "c_lock", f.se, NoStr, 0))
                /\ UNCHANGED fault
    /\ UNCHANGED <<zfs_snapshots_by_name, tunables, tq, world, ops, hist>>

destroy_rele(p) ==
    /\ At(p, "d_rele")
    /\ LET f == Top(p)
       IN  IF ~Live(f.se) THEN UNCHANGED <<se, stk>> /\ fault' = "uaf"
           ELSE /\ se' = zfsctl_snapshot_rele(se, f.se)
                /\ stk' = Return(p, 0)
                /\ UNCHANGED fault
    /\ UNCHANGED <<trees, zfs_snapshot_lock, tunables, tq, world, ops, hist>>

\* An unmount of a mounted snapshot that does not come from this module
\* (umount(8) by an administrator): the filesystem is torn down, which
\* runs zfsctl_destroy().
StartUmount(p, s) ==
    /\ CanStart(p)
    /\ mnt[s].st = "mounted" /\ ~Pinned(s)
    /\ mnt' = [mnt EXCEPT ![s].st = "teardown"]
    /\ stk' = [stk EXCEPT ![p] =
                  <<Frame("destroy", "d_rm_name", NoEntry, NoStr, s),
                    [Frame("umount", "x_exited", NoEntry, NoStr, 0)
                        EXCEPT !.snap = s]>>]
    /\ ops' = ops + 1
    /\ UNCHANGED <<trees, zfs_snapshot_lock, tunables, se, tq, dsname, fault, hist>>

umount_exited(p) ==
    /\ At(p, "x_exited")
    /\ mnt' = [mnt EXCEPT ![Top(p).snap] = [st |-> "none", at |-> NoStr]]
    /\ stk' = Return(p, 0)
    /\ UNCHANGED <<trees, zfs_snapshot_lock, tunables, se, tq, dsname, meta, hist>>

\* --------------------------------------- zfsctl_snapshot_unmount_delay
StartUnmountDelay(p, s, delay) ==
    /\ CanStart(p)
    /\ delay > 0 => DispatchPending < FreeTasks
    /\ Begin(p, [Frame("unmount_delay", "r_find", NoEntry, NoStr, delay)
                    EXCEPT !.spa = SnapSpa(s), !.obj = SnapObjsetid(s)])
    /\ UNCHANGED <<trees, zfs_snapshot_lock, tunables, se, tq, world, fault, hist>>

\* rw_enter(READER), find by objsetid; then zfsctl_snapshot_unmount_cancel
\* is entered
unmount_delay_find(p) ==
    /\ At(p, "r_find") /\ CanRead
    /\ LET f == Top(p)
           e == avl_find_by_objsetid(zfs_snapshots_by_objsetid, f.spa, f.obj)
       IN  IF Dangling(zfs_snapshots_by_objsetid)
           THEN UNCHANGED <<se, stk, zfs_snapshot_lock>> /\ fault' = "uaf"
           ELSE IF e = NoEntry
           THEN /\ stk' = Return(p, ENOENT)
                /\ UNCHANGED <<se, zfs_snapshot_lock, fault>>
           ELSE /\ zfs_snapshot_lock' = RdEnter(p)
                /\ se' = zfsctl_snapshot_hold(se, e)
                /\ stk' = Call(p, [f EXCEPT !.pc = "r_arm", !.se = e],
                               Frame("cancel", "c_lock", e, NoStr, 0))
                /\ UNCHANGED fault
    /\ UNCHANGED <<trees, tunables, tq, world, ops, hist>>

\* zfsctl_snapshot_unmount_delay_impl(se, delay)
unmount_delay_arm(p) ==
    /\ At(p, "r_arm")
    /\ LET f == Top(p)
       IN  /\ ArmReady(f.se, f.dl)
           /\ IF ~Live(f.se) THEN UNCHANGED <<se, stk, tq>> /\ fault' = "uaf"
              ELSE /\ se' = ArmSe(f.se, f.dl)
                   /\ tq' = ArmTq(f.se, f.dl)
                   /\ stk' = Goto(p, [f EXCEPT !.pc = "r_rele"])
                   /\ UNCHANGED fault
    /\ UNCHANGED <<trees, zfs_snapshot_lock, tunables, world, ops, hist>>

\* zfsctl_snapshot_rele, rw_exit, return 0
unmount_delay_rele(p) ==
    /\ At(p, "r_rele")
    /\ LET f == Top(p)
       IN  IF ~Live(f.se)
           THEN UNCHANGED <<se, stk, zfs_snapshot_lock>> /\ fault' = "uaf"
           ELSE /\ se' = zfsctl_snapshot_rele(se, f.se)
                /\ zfs_snapshot_lock' = RdExit(p)
                /\ stk' = Return(p, 0)
                /\ UNCHANGED fault
    /\ UNCHANGED <<trees, tunables, tq, world, ops, hist>>

\* ----------------------------------------------- zfsctl_snapshot_rename
\* Called with zfs_snapshot_lock held as writer; f.nm the old name, f.nm2
\* the new one.
rename_find(p) ==
    /\ At(p, "rn_find")
    /\ LET f == Top(p)
           e == avl_find_by_name(zfs_snapshots_by_name, f.nm)
       IN  IF Dangling(zfs_snapshots_by_name)
           THEN UNCHANGED <<se, stk>> /\ fault' = "uaf"
           ELSE IF e = NoEntry
           THEN stk' = Return(p, ENOENT) /\ UNCHANGED <<se, fault>>
           ELSE /\ se' = zfsctl_snapshot_hold(se, e)
                /\ stk' = Goto(p, [f EXCEPT !.pc = "rn_remove", !.se = e])
                /\ UNCHANGED fault
    /\ UNCHANGED <<trees, zfs_snapshot_lock, tunables, tq, world, ops, hist>>

\* faulty variant: the entry keeps its old name
RenameKey_old(old_snapname, new_snapname) == old_snapname

\* se->se_name = kmem_strdup(new_snapname)
RenameKey(old_snapname, new_snapname) == new_snapname

\* zfsctl_snapshot_remove (both avl_remove, the release), then se_name is
\* replaced by the new name
rename_remove(p) ==
    /\ At(p, "rn_remove")
    /\ LET f == Top(p)
           released == zfsctl_snapshot_rele(se, f.se)
       IN  /\ zfs_snapshots_by_name' = avl_remove(zfs_snapshots_by_name, f.se)
           /\ zfs_snapshots_by_objsetid' =
                  avl_remove(zfs_snapshots_by_objsetid, f.se)
           /\ IF released[f.se].st # "live"
              THEN se' = released /\ fault' = "uaf" /\ UNCHANGED stk
              ELSE /\ se' = [released EXCEPT
                               ![f.se].se_name = RenameKey(f.nm, f.nm2)]
                   /\ stk' = Goto(p, [f EXCEPT !.pc = "rn_add"])
                   /\ UNCHANGED fault
    /\ UNCHANGED <<zfs_snapshot_lock, tunables, tq, world, ops, hist>>

\* zfsctl_snapshot_add: the hold and both avl_add
rename_add(p) ==
    /\ At(p, "rn_add")
    /\ LET f == Top(p)
       IN  IF Dangling(zfs_snapshots_by_name)
           THEN UNCHANGED <<se, stk, trees>> /\ fault' = "uaf"
           ELSE IF \/ avl_find_by_name(zfs_snapshots_by_name, f.nm2) # NoEntry
                   \/ avl_find_by_objsetid(zfs_snapshots_by_objsetid,
                          se[f.se].se_spa, se[f.se].se_objsetid) # NoEntry
           THEN UNCHANGED <<se, stk, trees>> /\ fault' = "avl_add"
           ELSE /\ se' = zfsctl_snapshot_hold(se, f.se)
                /\ zfs_snapshots_by_name' = avl_add(zfs_snapshots_by_name, f.se)
                /\ zfs_snapshots_by_objsetid' =
                       avl_add(zfs_snapshots_by_objsetid, f.se)
                /\ stk' = Goto(p, [f EXCEPT !.pc = "rn_rele"])
                /\ UNCHANGED fault
    /\ UNCHANGED <<zfs_snapshot_lock, tunables, tq, world, ops, hist>>

rename_rele(p) ==
    /\ At(p, "rn_rele")
    /\ se' = zfsctl_snapshot_rele(se, Top(p).se)
    /\ stk' = Return(p, 0)
    /\ UNCHANGED <<trees, zfs_snapshot_lock, tunables, tq, world, meta, hist>>

\* ------------------------------------------------ zfsctl_snapdir_rename
\* mv .zfs/snapshot/<c1> .zfs/snapshot/<c2>
\* faulty variant: the administrative operations are always allowed
AdminDisabled_never == FALSE

\* if (!zfs_admin_snapshot) return (SET_ERROR(EACCES))
AdminDisabled == zfs_admin_snapshot = 0

StartSnapdirRename(p, c1, c2) ==
    /\ CanStart(p)
    /\ Named(CompStr(c1)) # {} /\ c1 # c2
    /\ Begin(p, [Frame("snapdir_rename", "n_wlock", NoEntry, CompStr(c1), 0)
                    EXCEPT !.nm2 = CompStr(c2)])
    /\ UNCHANGED <<trees, zfs_snapshot_lock, tunables, se, tq, world, fault, hist>>

\* A rename that reaches zfsctl_snapshot_rename with the names of the
\* registry's keys: the dataset rename followed by the registry rename, both
\* under the write lock.
StartRegistryRename(p, c1, c2) ==
    /\ CanStart(p)
    /\ zfs_admin_snapshot # 0
    /\ Named(CompStr(c1)) # {} /\ c1 # c2
    /\ Begin(p, [Frame("registry_rename", "n_wlock", NoEntry, CompStr(c1), 0)
                    EXCEPT !.nm2 = CompStr(c2)])
    /\ UNCHANGED <<trees, zfs_snapshot_lock, tunables, se, tq, world, fault, hist>>

\* the checks made before the lock is taken, then rw_enter(WRITER)
snapdir_rename_wlock(p) ==
    /\ At(p, "n_wlock")
    /\ LET f == Top(p)
       IN  IF AdminDisabled
           THEN stk' = Return(p, EACCES) /\ UNCHANGED zfs_snapshot_lock
           ELSE IF strcmp(f.nm, f.nm2) = 0
           THEN stk' = Return(p, 0) /\ UNCHANGED zfs_snapshot_lock
           ELSE /\ CanWrite
                /\ zfs_snapshot_lock' = WrEnter(p)
                /\ stk' = Goto(p, [f EXCEPT !.pc = "n_dsl"])
    /\ UNCHANGED <<trees, tunables, se, tq, world, meta, hist>>

\* dsl_dataset_rename_snapshot(fsname, snm, tnm): the snapshot must exist
\* and the new name must be free
dsl_dataset_rename_snapshot(snm, tnm) ==
    IF Named(snm) = {} THEN ENOENT ELSE IF Named(tnm) # {} THEN EEXIST ELSE 0

\* the names zfsctl_snapshot_rename is called with: zfsctl_snapdir_rename
\* passes the snapshot components snm and tnm it was given; the caller the
\* function is written for passes the dataset names the registry is keyed by
RenameArg(f, snap_name) ==
    IF f.fn = "registry_rename" THEN zfsctl_snapshot_name(snap_name)
    ELSE snap_name

snapdir_rename_dsl(p) ==
    /\ At(p, "n_dsl")
    /\ LET f == Top(p)
           error == dsl_dataset_rename_snapshot(f.nm, f.nm2)
       IN  IF error = 0
           THEN /\ dsname' = [s \in Snaps |-> IF s \in Named(f.nm)
                                              THEN Head(f.nm2) - 48 ELSE dsname[s]]
                /\ stk' = Call(p, [f EXCEPT !.pc = "n_unlock", !.err = error],
                               [Frame("rename", "rn_find", NoEntry,
                                      RenameArg(f, f.nm), 0)
                                   EXCEPT !.nm2 = RenameArg(f, f.nm2)])
           ELSE /\ stk' = Goto(p, [f EXCEPT !.pc = "n_unlock", !.err = error])
                /\ UNCHANGED dsname
    /\ UNCHANGED <<trees, zfs_snapshot_lock, tunables, se, tq, mnt, meta, hist>>

snapdir_rename_unlock(p) ==
    /\ At(p, "n_unlock")
    /\ zfs_snapshot_lock' = WrExit(p)
    /\ stk' = Return(p, Top(p).err)
    /\ UNCHANGED <<trees, tunables, se, tq, world, meta, hist>>

\* ------------------------------------------------ zfsctl_snapdir_remove
\* rmdir .zfs/snapshot/<c>: if (!zfs_admin_snapshot) return EACCES; else
\* zfsctl_snapshot_unmount(snapname, MNT_FORCE) is entered
zfsctl_snapdir_remove(p, c) ==
    /\ CanStart(p)
    /\ Named(CompStr(c)) # {}
    /\ LET f == Frame("snapdir_remove", "rm_destroy", NoEntry, CompStr(c), 0)
       IN  stk' = [stk EXCEPT ![p] =
                     IF AdminDisabled THEN <<Done(f, EACCES)>>
                     ELSE <<Frame("unmount", "u_find", NoEntry,
                                  zfsctl_snapshot_name(f.nm), 0), f>>]
    /\ ops' = ops + 1
    /\ UNCHANGED <<trees, zfs_snapshot_lock, tunables, se, tq, world, fault, hist>>

\* faulty variant: the destroy is attempted whatever the unmount returned
DestroyAfter_always(error) == TRUE

\* the snapshot destroy is attempted after these results of the unmount
DestroyAfter(error) == error = 0 \/ error = ENOENT

\* dsl_destroy_snapshot(snapname, B_FALSE): the snapshot must exist and
\* must not be mounted
dsl_destroy_snapshot(snap_name) ==
    IF Named(snap_name) = {} THEN ENOENT
    ELSE IF \E s \in Named(snap_name) : mnt[s].st # "none" THEN EBUSY
    ELSE 0

\* if ((error == 0) || (error == ENOENT)) error = dsl_destroy_snapshot()
snapdir_remove_destroy(p) ==
    /\ At(p, "rm_destroy")
    /\ LET f == Top(p)
           error == IF DestroyAfter(f.rv) THEN dsl_destroy_snapshot(f.nm)
                    ELSE f.rv
       IN  /\ dsname' = IF DestroyAfter(f.rv) /\ error = 0
                        THEN [s \in Snaps |-> IF s \in Named(f.nm)
                                              THEN NoComp ELSE dsname[s]]
                        ELSE dsname
           /\ stk' = Return(p, error)
    /\ UNCHANGED <<trees, zfs_snapshot_lock, tunables, se, tq, mnt, meta, hist>>

\* ------------------------------------------------- zfsctl_snapdir_mkdir
\* dmu_objset_snapshot_one(dsname, dirname): the name must be free and the
\* snapshot must fit
dmu_objset_snapshot_one(snap_name) ==
    IF Named(snap_name) # {} THEN EEXIST
    ELSE IF \A s \in Snaps : dsname[s] # NoComp THEN ENOSPC
    ELSE 0

\* mkdir .zfs/snapshot/<c>: if (!zfs_admin_snapshot) return EACCES; else
\* the snapshot is created
zfsctl_snapdir_mkdir(p, c) ==
    /\ CanStart(p)
    /\ Named(CompStr(c)) = {}
    /\ LET error == IF AdminDisabled THEN EACCES
                    ELSE dmu_objset_snapshot_one(CompStr(c))
           new == CHOOSE s \in Snaps : dsname[s] = NoComp
       IN  /\ dsname' = IF error = 0 THEN [dsname EXCEPT ![new] = c]
                        ELSE dsname
           /\ Begin(p, Done(Frame("snapdir_mkdir", "done", NoEntry, NoStr, 0),
                            error))
    /\ UNCHANGED <<trees, zfs_snapshot_lock, tunables, se, tq, mnt, fault, hist>>

\* ------------------------------------------------------------- tunables
\* module parameters are writable at run time (0644)
SetExpire(v) ==
    /\ fault = "none" /\ ops < MaxOps
    /\ v # zfs_expire_snapshot
    /\ zfs_expire_snapshot' = v
    /\ ops' = ops + 1
    /\ UNCHANGED <<trees, zfs_snapshot_lock, zfs_admin_snapshot, se, tq, stk,
                   world, fault, hist>>

SetAdmin(v) ==
    /\ fault = "none" /\ ops < MaxOps
    /\ v # zfs_admin_snapshot
    /\ zfs_admin_snapshot' = v
    /\ ops' = ops + 1
    /\ UNCHANGED <<trees, zfs_snapshot_lock, zfs_expire_snapshot, se, tq, stk,
                   world, fault, hist>>

\* ------------------------------------------------------------------ Next
Step(p) ==
    \/ mount_ismounted(p) \/ mount_helper(p) \/ mount_follow(p)
    \/ mount_add_name(p) \/ mount_add_obj(p) \/ mount_unlock(p)
    \/ cancel_lock(p) \/ cancel_wait(p)
    \/ expire_early(p) \/ expire_lock(p) \/ expire_rele(p)
    \/ expire_refind(p) \/ expire_rearm(p) \/ expire_rele2(p)
    \/ unmount_find(p) \/ unmount_helper_fail(p) \/ unmount_helper_ok(p)
    \/ unmount_exited(p)
    \/ destroy_rm_name(p) \/ destroy_rm_obj(p) \/ destroy_rele(p)
    \/ umount_exited(p)
    \/ unmount_delay_find(p) \/ unmount_delay_arm(p) \/ unmount_delay_rele(p)
    \/ rename_find(p)
    \/ snapdir_rename_wlock(p)
    \/ snapdir_rename_dsl(p) \/ snapdir_rename_unlock(p)
    \/ snapdir_remove_destroy(p)

Start ==
    \/ \E p \in Callers, c \in Comps : StartMount(p, c)
    \/ \E p \in Callers, c \in Comps : StartUnmount(p, c)
    \/ \E p \in Callers, s \in Snaps, d \in DelayArgs : StartUnmountDelay(p, s, d)
    \/ \E p \in Callers, c1, c2 \in Comps : StartSnapdirRename(p, c1, c2)
    \/ \E p \in Callers, s \in Snaps : StartUmount(p, s)
    \/ \E p \in Callers, c \in Comps : zfsctl_snapdir_remove(p, c)
    \/ \E p \in Callers, c \in Comps : zfsctl_snapdir_mkdir(p, c)
    \/ \E v \in ExpireValues : SetExpire(v)
    \/ \E v \in AdminValues : SetAdmin(v)

Next ==
    \/ Start
    \/ \E k \in TaskIds : expire_fire(k)
    \/ \E p \in Procs : Step(p)

Spec == Init /\ [][Next]_vars

\* The program together with a rename that reaches the registry's entry.
RegNext ==
    \/ Next
    \/ \E p \in Callers, c1, c2 \in Comps : StartRegistryRename(p, c1, c2)
    \/ \E p \in Callers : rename_remove(p) \/ rename_add(p) \/ rename_rele(p)

RegSpec == Init /\ [][RegNext]_vars

\* ---------------------------------------------------------- properties
InTree(e) == e \in zfs_snapshots_by_name \/ e \in zfs_snapshots_by_objsetid
MountCall(f) == f.fn = "mount" /\ f.pc # "done"
Pending(e) == {k \in TaskIds : tq[k].st = "pending" /\ tq[k].se = e}

\* C1: whenever no thread holds zfs_snapshot_lock as writer, an entry is in
\* the by-name tree if and only if it is in the by-objsetid tree.
C1_BothOrNeither ==
    zfs_snapshot_lock.w = NoProc =>
        zfs_snapshots_by_name = zfs_snapshots_by_objsetid

\* an entry that was renamed in the registry sits in both trees, lock free
C1_Witness ==
    /\ zfs_snapshot_lock.w = NoProc
    /\ \E e \in zfs_snapshots_by_name \cap zfs_snapshots_by_objsetid :
          se[e].se_name = zfsctl_snapshot_name(CompStr(3))

\* C2: an entry that is in either tree is allocated and its reference count
\* is at least 1; a count of 0 (the entry is freed) is only seen off both
\* trees.
C2_RegisteredHeld ==
    \A e \in EntryIds : InTree(e) => Live(e) /\ se[e].se_refcount >= 1

\* a registered entry down to the registry's own reference after its
\* expiry task has run and dropped the task's reference
C2_Witness ==
    \E k \in TaskIds :
        /\ tq[k].st = "done" /\ hist.relf[k] = 1
        /\ InTree(tq[k].se) /\ se[tq[k].se].se_refcount = 1

\* C3: no access to a freed entry ever happens (a second free included),
\* and nothing that will be used later points to a freed entry: no tree
\* node and no pending task.
C3_NoUseAfterFree ==
    /\ fault # "uaf"
    /\ \A e \in EntryIds : InTree(e) => Live(e)
    /\ \A k \in TaskIds : tq[k].st = "pending" => Live(tq[k].se)

\* an entry was freed after its expiry callback had run on it
C3_Witness ==
    \E k \in TaskIds : tq[k].st = "done" /\ se[tq[k].se].st = "freed"

\* C4: no entry has more than one pending task.
C4_OnePending == \A e \in EntryIds : Cardinality(Pending(e)) <= 1

\* cancel followed by arm: the first task cancelled, the second pending
C4_Witness ==
    \E j, k \in TaskIds :
        /\ tq[j].st = "cancelled" /\ tq[k].st = "pending"
        /\ tq[j].se = tq[k].se /\ InTree(tq[k].se)

C6_Unique ==
    /\ fault # "avl_add"
    /\ \A a, b \in EntryIds :
          (a # b /\ Live(a) /\ Live(b) /\ InTree(a) /\ InTree(b)) =>
              /\ snapentry_compare_by_name(se[a].se_name, se[b].se_name) # 0
              /\ snapentry_compare_by_objsetid(se[a].se_spa, se[a].se_objsetid,
                     se[b].se_spa, se[b].se_objsetid) # 0

\* C7: the reference of a dispatched task is released once: by cancel
\* exactly when cancel removed the task before it ran, by the callback
\* exactly when the task ran (hist.relc and hist.relf count the releases
\* per task); and se_taskqid is invalid when cancel returns.
C7_ReleasedOnce ==
    \A k \in 0..MaxTasks :
        /\ hist.relc[k] + hist.relf[k] <= 1
        /\ hist.relc[k] = 1 <=> (k \in TaskIds /\ tq[k].st = "cancelled")
        /\ hist.relf[k] = 1 => (k \in TaskIds /\ tq[k].st \in {"running", "done"})
        /\ (k \in TaskIds /\ tq[k].st = "done") => hist.relf[k] = 1

C7_ClearedOnReturn ==
    \A p \in Procs :
        (/\ stk[p] # << >> /\ Top(p).fn = "cancel"
         /\ Len(stk'[p]) < Len(stk[p]))
        => se'[Top(p).se].se_taskqid = TASKQID_INVALID

C8_CancelledNeverRuns ==
    \A k \in TaskIds :
        hist.relc[k] = 1 => tq[k].st = "cancelled" /\ stk[TaskProc(k)] = << >>

\* after a successful cancel the entry's next task has fired; the cancelled
\* one has not
C8_Witness ==
    \E j, k \in TaskIds :
        /\ hist.relc[j] = 1 /\ tq[k].st \in {"running", "done"}
        /\ tq[j].se = tq[k].se

\* a canceller waits inside taskq_cancel_id, se_taskqid_lock held, for the
\* callback of task k, which waits for se_taskqid_lock
Deadlocked(p, k) ==
    /\ At(p, "c_wait") /\ Top(p).dl = k
    /\ tq[k].st = "running"
    /\ At(TaskProc(k), "e_lock")
    /\ Top(TaskProc(k)).se = Top(p).se
    /\ se[Top(p).se].se_taskqid_lock = p

\* C9: no state is reached in which a canceller and the callback it waits
\* for wait for each other.
C9_NoDeadlock == \A p \in Callers, k \in TaskIds : ~Deadlocked(p, k)

\* C10: no thread stays for ever inside the critical section of a lookup:
\* none holds zfs_snapshot_lock while it waits for a callback that waits
\* for it.
C10_LookupsReturn ==
    \A q \in zfs_snapshot_lock.r : ~\E k \in TaskIds : Deadlocked(q, k)

\* the callback of task k has called zfsctl_snapshot_unmount, which has
\* returned v
ExpireUnmounted(k, v) ==
    /\ stk[TaskProc(k)] # << >>
    /\ Top(TaskProc(k)).fn = "expire"
    /\ Top(TaskProc(k)).pc \in {"e_rele", "e_refind", "e_rearm", "e_rele2"}
    /\ Top(TaskProc(k)).rv = v

\* C11: once the unmount made by the expiry callback of an entry has
\* succeeded, the entry is in neither tree and no task is pending for it;
\* and when a snapshot was automounted and nothing else was done (no access,
\* no reschedule), after the callback has completed with the snapshot
\* unmounted the registry is empty and no task is pending.
C11_ExpirySuccess ==
    /\ \A k \in TaskIds : ExpireUnmounted(k, 0) =>
           ~InTree(tq[k].se) /\ Pending(tq[k].se) = {}
    /\ (/\ ops = 1
        /\ \E k \in TaskIds : tq[k].st = "done"
        /\ \A k \in TaskIds : tq[k].st \in {"free", "done"}
        /\ \A s \in Snaps : mnt[s].st = "none")
       => /\ zfs_snapshots_by_name = {} /\ zfs_snapshots_by_objsetid = {}
          /\ \A e \in EntryIds : se[e].st # "live"

\* one automount, its task has fired, the helper has unmounted the
\* snapshot and the callback has completed
C11_Witness ==
    /\ ops = 1
    /\ \E k \in TaskIds : tq[k].st = "done" /\ se[tq[k].se].st = "freed"
    /\ \A k \in TaskIds : tq[k].st \in {"free", "done"}
    /\ \A s \in Snaps : mnt[s].st = "none"
    /\ zfs_snapshots_by_name = {}

\* the callback of task k makes its step of re-arming after an unmount that
\* returned EBUSY
BusyRearm(k) ==
    /\ At(TaskProc(k), "e_rearm")
    /\ Top(TaskProc(k)).rv = EBUSY
    /\ stk'[TaskProc(k)] # stk[TaskProc(k)]

\* C12 as stated: a task dispatched by the callback after a busy unmount is
\* armed with the delay of the task that has just fired.
C12_SameDelay ==
    [][\A k, j \in TaskIds :
          (BusyRearm(k) /\ tq[j].st = "free" /\ tq'[j].st = "pending")
          => tq'[j].dl = tq[k].dl]_vars

\* the callback re-arms only an entry that is registered in both trees
C12_StillRegistered ==
    \A k \in TaskIds :
        (At(TaskProc(k), "e_rearm") /\ Top(TaskProc(k)).rv = EBUSY) =>
            /\ Top(TaskProc(k)).se \in zfs_snapshots_by_name
            /\ Top(TaskProc(k)).se \in zfs_snapshots_by_objsetid

\* when the callback re-arms with expiry enabled and no task scheduled for
\* the entry, exactly one task is dispatched, it is the entry's only
\* pending task, and its delay is the value of zfs_expire_snapshot
C12_RearmStep ==
    \A k \in TaskIds :
        (/\ BusyRearm(k)
         /\ ~DelayDisabled(zfs_expire_snapshot)
         /\ ~AlreadyDispatched(se[Top(TaskProc(k)).se].se_taskqid))
        => \E j \in TaskIds :
              /\ tq[j].st = "free"
              /\ tq'[j] = [st |-> "pending", se |-> Top(TaskProc(k)).se,
                           dl |-> zfs_expire_snapshot]
              /\ \A i \in TaskIds \ {j} :
                    /\ tq'[i] = tq[i]
                    /\ ~(tq[i].st = "pending" /\ tq[i].se = Top(TaskProc(k)).se)
              /\ se'[Top(TaskProc(k)).se].se_taskqid = j

\* C12 amended: EBUSY from the callback's unmount is absorbed, the entry
\* found again is registered in both trees, and the callback arms exactly
\* one new task for it, with the current value of zfs_expire_snapshot as
\* its delay.
C12_BusyRearm == []C12_StillRegistered /\ [][C12_RearmStep]_vars

\* the callback of a task armed with another delay has re-armed after a
\* busy unmount: the new task carries the tunable's value
C12_Witness ==
    \E k, j \in TaskIds :
        /\ At(TaskProc(k), "e_rele2") /\ Top(TaskProc(k)).rv = EBUSY
        /\ tq[j].st = "pending" /\ tq[j].se = Top(TaskProc(k)).se
        /\ tq[j].dl = zfs_expire_snapshot /\ tq[k].dl # tq[j].dl

\* the thread p runs zfsctl_snapshot_rename and is about to run step pc
InRename(p, pc) == At(p, pc) /\ Top(p).fn = "rename"

\* what find_by_name returns at the points of a rename: the entry found
\* under the old name is the one removed; at the return of a successful
\* rename that very entry is found under the new name (and by its
\* identifiers) and nothing under the old name
C13_RoundTrip ==
    \A p \in Callers :
        /\ InRename(p, "rn_remove") =>
              /\ Top(p).se # NoEntry
              /\ avl_find_by_name(zfs_snapshots_by_name, Top(p).nm) = Top(p).se
        /\ InRename(p, "rn_rele") =>
              /\ avl_find_by_name(zfs_snapshots_by_name, Top(p).nm2) = Top(p).se
              /\ avl_find_by_name(zfs_snapshots_by_name, Top(p).nm) = NoEntry
              /\ Top(p).se \in zfs_snapshots_by_objsetid

\* a rename of a name that is not registered returns ENOENT and changes
\* neither tree nor any entry
C13_NotFound ==
    \A p \in Callers :
        (/\ InRename(p, "rn_find")
         /\ avl_find_by_name(zfs_snapshots_by_name, Top(p).nm) = NoEntry
         /\ stk'[p] # stk[p])
        => /\ Head(stk'[p]).rv = ENOENT
           /\ UNCHANGED <<zfs_snapshots_by_name, zfs_snapshots_by_objsetid, se>>

\* C13: rename(a, b) of a registered a to a b that is not registered makes
\* find_by_name(b) return the entry find_by_name(a) returned before and
\* find_by_name(a) return nothing; rename of a name that is not registered
\* returns ENOENT and leaves both trees and every reference count as they
\* were.
C13_RenameRoundTrip == []C13_RoundTrip /\ [][C13_NotFound]_vars

\* a registry rename has returned 0 to its caller: the entry is found
\* under the new name
C13_Witness ==
    \E p \in Callers :
        /\ At(p, "n_unlock") /\ Top(p).fn = "registry_rename"
        /\ Top(p).err = 0 /\ Top(p).rv = 0
        /\ avl_find_by_name(zfs_snapshots_by_name,
                            zfsctl_snapshot_name(Top(p).nm2)) # NoEntry
        /\ avl_find_by_name(zfs_snapshots_by_name,
                            zfsctl_snapshot_name(Top(p).nm)) = NoEntry

\* the steps in which a thread looks an entry up in a tree
FinderPcs == {"m_ismounted", "u_find", "r_find", "e_refind", "d_rm_name"}

\* the thread q makes a lookup in this step
Finds(q) == \E pc \in FinderPcs : At(q, pc) /\ stk'[q] # stk[q]

\* the entry of every rename under way in another thread is in the by-name
\* tree under the old or the new name, and in the by-objsetid tree
SeenByFinder(q) ==
    \A p \in Callers \ {q} :
        (stk[p] # << >> /\ Top(p).fn = "rename" /\ Top(p).se # NoEntry) =>
            /\ \/ avl_find_by_name(zfs_snapshots_by_name, Top(p).nm) = Top(p).se
               \/ avl_find_by_name(zfs_snapshots_by_name, Top(p).nm2) = Top(p).se
            /\ Top(p).se \in zfs_snapshots_by_objsetid

\* C14: no lookup is made while the entry of a rename under way is out of
\* a tree: every lookup made by another thread finds the entry under the
\* old name or under the new one, and by its identifiers.
C14_RenameAtomic == [][\A q \in Procs : Finds(q) => SeenByFinder(q)]_vars

\* a rename has removed its entry and not yet added it again while the
\* expiry callback of that entry waits to look it up by name
C14_Witness ==
    \E p \in Callers, k \in TaskIds :
        /\ InRename(p, "rn_add")
        /\ ~InTree(Top(p).se)
        /\ At(TaskProc(k), "u_find") /\ tq[k].se = Top(p).se

\* the registered entry of snapshot s, or NoEntry
EntryOf(s) ==
    avl_find_by_objsetid(zfs_snapshots_by_objsetid, SnapSpa(s), SnapObjsetid(s))

\* C15: when zfsctl_snapdir_rename has renamed an automounted snapshot in
\* the dataset namespace, at its return the registry holds the snapshot's
\* entry under the new full name and nothing under the old full name.
C15_RenameReindexes ==
    \A p \in Callers :
        (/\ At(p, "n_unlock") /\ Top(p).fn = "snapdir_rename"
         /\ Top(p).err = 0
         /\ \E s \in Named(Top(p).nm2) : EntryOf(s) # NoEntry)
        => /\ zfsctl_snapshot_ismounted(zfsctl_snapshot_name(Top(p).nm2))
           /\ ~zfsctl_snapshot_ismounted(zfsctl_snapshot_name(Top(p).nm))

\* zfsctl_snapshot_unmount looks up a name that is not registered
UnmountOfAbsent(p) ==
    /\ At(p, "u_find")
    /\ avl_find_by_name(zfs_snapshots_by_name, Top(p).nm) = NoEntry
    /\ stk'[p] # stk[p]

\* the call returns ENOENT from its lookup: no helper is invoked, no tree,
\* entry, task or mount changes
C16_NotFoundStep ==
    \A p \in Procs :
        UnmountOfAbsent(p) =>
            /\ Len(stk'[p]) <= Len(stk[p])
            /\ Head(stk'[p]).pc # "u_helper"
            /\ Head(stk'[p]).rv = ENOENT
            /\ UNCHANGED <<zfs_snapshots_by_name, zfs_snapshots_by_objsetid,
                           se, tq, mnt>>

\* a call that has returned ENOENT has invoked no helper
C16_NoHelper ==
    \A p \in Callers :
        (At(p, "done") /\ Top(p).fn = "unmount" /\ Top(p).rv = ENOENT) =>
            Top(p).hs = -1

\* C16: every call of zfsctl_snapshot_unmount for a name that is not
\* registered returns ENOENT without invoking a helper and leaves both
\* trees, every reference count and every task as they were.
C16_UnmountAbsent == []C16_NoHelper /\ [][C16_NotFoundStep]_vars

\* a snapshot was automounted and unmounted again; a later unmount of a
\* name has returned ENOENT
C16_Witness ==
    \E p \in Callers :
        /\ At(p, "done") /\ Top(p).fn = "unmount"
        /\ Top(p).rv = ENOENT /\ Top(p).hs = -1
        /\ ops >= 2
        /\ zfs_snapshots_by_name = {}
        /\ \E e \in EntryIds : se[e].st = "freed"

\* zfsctl_snapshot_mount makes its check of the registry and the full name
\* of its snapshot is registered
MountOfRegistered(p) ==
    /\ At(p, "m_ismounted")
    /\ avl_find_by_name(zfs_snapshots_by_name,
                        zfsctl_snapshot_name(Top(p).nm)) # NoEntry
    /\ stk'[p] # stk[p]

\* C17: when zfsctl_snapshot_mount finds the full name registered it
\* returns 0 without invoking the mount helper and leaves both trees, every
\* entry (reference count, se_taskqid), every task and every mount as they
\* were.
C17_FastPath ==
    [][\A p \in Callers :
          MountOfRegistered(p) =>
              /\ Head(stk'[p]).pc = "done"
              /\ Head(stk'[p]).rv = 0
              /\ Head(stk'[p]).hs = -1
              /\ UNCHANGED <<zfs_snapshots_by_name, zfs_snapshots_by_objsetid,
                             se, tq, mnt>>]_vars

\* a second call for an automounted snapshot has returned 0 without a
\* helper while the entry of the first is registered
C17_Witness ==
    \E p \in Callers :
        /\ At(p, "done") /\ Top(p).fn = "mount"
        /\ Top(p).rv = 0 /\ Top(p).hs = -1
        /\ zfs_snapshots_by_name # {}

\* the exit code in a helper status (exitcode << 8) + signal
ExitCode(status) == (status \div 256) % 256

\* the mount helper of the call of p exits in this step
HelperExits(p) == At(p, "m_helper") /\ stk'[p] # stk[p]

\* C18: when the mount helper exits with a nonzero status,
\* zfsctl_snapshot_mount returns without adding an entry or dispatching a
\* task; it returns 0 when the exit code carries MOUNT_BUSY and EISDIR for
\* any other nonzero status.
C18_HelperFailure ==
    [][\A p \in Callers :
          (HelperExits(p) /\ Head(stk'[p]).hs # 0) =>
              /\ Head(stk'[p]).pc = "done"
              /\ Head(stk'[p]).rv =
                     IF (ExitCode(Head(stk'[p]).hs) \div MOUNT_BUSY) % 2 = 1
                     THEN 0 ELSE EISDIR
              /\ UNCHANGED <<zfs_snapshots_by_name, zfs_snapshots_by_objsetid,
                             se, tq>>]_vars

\* one call has got EISDIR from a failed helper and another 0 from a busy
\* one
C18_Witness ==
    \E p, q \in Callers :
        /\ At(p, "done") /\ Top(p).fn = "mount"
        /\ Top(p).hs = HelperFail /\ Top(p).rv = EISDIR
        /\ At(q, "done") /\ Top(q).fn = "mount"
        /\ Top(q).hs = HelperBusy /\ Top(q).rv = 0

\* C19 as stated: when zfsctl_snapshot_unmount_delay is about to return
\* for a registered entry and a delay > 0, exactly one task is pending for
\* the entry and it carries the delay passed to this call.
C19_OnePendingOnReturn ==
    \A p \in Callers :
        (At(p, "r_rele") /\ Top(p).dl > 0) =>
            \E j \in TaskIds :
                /\ Pending(Top(p).se) = {j}
                /\ tq[j].dl = Top(p).dl

\* zfsctl_snapshot_unmount_delay makes its call of
\* zfsctl_snapshot_unmount_delay_impl with a delay > 0
RescheduleArms(p) ==
    /\ At(p, "r_arm") /\ Top(p).fn = "unmount_delay"
    /\ Top(p).dl > 0
    /\ stk'[p] # stk[p]

\* the arm of a reschedule: with no task scheduled for the entry it
\* dispatches exactly one task, carrying the delay passed to the call,
\* which is then the entry's only pending task; with a task scheduled in
\* the meantime it dispatches nothing and leaves the entry as it was
C19_ArmStep ==
    \A p \in Callers :
        RescheduleArms(p) =>
            IF se[Top(p).se].se_taskqid = TASKQID_INVALID
            THEN \E j \in TaskIds :
                    /\ tq[j].st = "free"
                    /\ tq'[j] = [st |-> "pending", se |-> Top(p).se,
                                 dl |-> Top(p).dl]
                    /\ se'[Top(p).se].se_taskqid = j
                    /\ \A i \in TaskIds \ {j} :
                          /\ tq'[i] = tq[i]
                          /\ ~(tq[i].st = "pending" /\ tq[i].se = Top(p).se)
            ELSE tq' = tq /\ se' = se

\* an identifier that is not registered: ENOENT, nothing changes
C19_NotFoundStep ==
    \A p \in Callers :
        (/\ At(p, "r_find")
         /\ avl_find_by_objsetid(zfs_snapshots_by_objsetid,
                                 Top(p).spa, Top(p).obj) = NoEntry
         /\ stk'[p] # stk[p])
        => /\ Head(stk'[p]).pc = "done"
           /\ Head(stk'[p]).rv = ENOENT
           /\ UNCHANGED <<zfs_snapshots_by_name, zfs_snapshots_by_objsetid,
                          se, tq>>

\* a call that found the entry returns 0
C19_ReturnStep ==
    \A p \in Callers :
        (At(p, "r_rele") /\ stk'[p] # stk[p]) =>
            Head(stk'[p]).pc = "done" /\ Head(stk'[p]).rv = 0

\* C19 amended: zfsctl_snapshot_unmount_delay returns ENOENT and changes
\* nothing for an identifier that is not registered; for a registered one
\* it returns 0 and, with a delay > 0, its arm dispatches exactly one task
\* with the delay passed, the entry's only pending task, unless another
\* thread has scheduled a task for the entry since the call's cancel, in
\* which case that task is kept and nothing is dispatched.
C19_Reschedule ==
    [][C19_ArmStep /\ C19_NotFoundStep /\ C19_ReturnStep]_vars

\* a reschedule is about to return: the entry's earlier task is cancelled
\* and its one pending task carries the delay of the call
C19_Witness ==
    \E p \in Callers, j, k \in TaskIds :
        /\ At(p, "r_rele") /\ Top(p).dl > 0
        /\ tq[j].st = "cancelled" /\ tq[j].se = Top(p).se
        /\ tq[j].dl # Top(p).dl
        /\ Pending(Top(p).se) = {k} /\ tq[k].dl = Top(p).dl

\* the thread p makes a call of zfsctl_snapshot_unmount_delay_impl in this
\* step with a delay <= 0: from zfsctl_snapshot_mount, from
\* zfsctl_snapshot_unmount_delay or from snapentry_expire
ArmsDisabled(p) ==
    /\ stk'[p] # stk[p]
    /\ \/ At(p, "m_add_obj") /\ zfs_expire_snapshot <= 0
       \/ At(p, "r_arm") /\ Top(p).dl <= 0
       \/ At(p, "e_rearm") /\ zfs_expire_snapshot <= 0

\* such an arm takes no reference, dispatches no task and leaves
\* se_taskqid as it was; the entry zfsctl_snapshot_mount has just
\* registered is left with one reference and no task
C20_ArmNoop ==
    \A p \in Procs :
        ArmsDisabled(p) =>
            /\ se' = se /\ tq' = tq
            /\ At(p, "m_add_obj") =>
                  /\ se'[Top(p).se].se_refcount = 1
                  /\ se'[Top(p).se].se_taskqid = TASKQID_INVALID
                  /\ Pending(Top(p).se) = {}

\* every task was dispatched with a delay > 0, and only the callback of
\* such a task calls zfsctl_snapshot_unmount; with zfs_expire_snapshot 0
\* and nothing done but automounts, there is no task at all and a
\* registered entry has the registry's reference only
C20_NoExpiry ==
    /\ \A k \in TaskIds : tq[k].st # "free" => tq[k].dl > 0
    /\ \A k \in TaskIds : stk[TaskProc(k)] # << >> => tq[k].st = "running"
    /\ (ops = 1 /\ zfs_expire_snapshot = 0) =>
          /\ \A k \in TaskIds : tq[k].st = "free"
          /\ \A e \in zfs_snapshots_by_objsetid :
                se[e].se_refcount = 1 /\ se[e].se_taskqid = TASKQID_INVALID

\* C20: zfsctl_snapshot_unmount_delay_impl with a delay <= 0 does nothing;
\* so with zfs_expire_snapshot 0 an automount leaves its entry with a
\* reference count of 1 and no task, and no expiry ever unmounts it.
C20_ExpiryDisabled == []C20_NoExpiry /\ [][C20_ArmNoop]_vars

\* with zfs_expire_snapshot 0 an automount has returned: its entry is
\* registered with one reference and no task
C20_Witness ==
    \E p \in Callers, e \in EntryIds :
        /\ ops = 1 /\ zfs_expire_snapshot = 0
        /\ At(p, "done") /\ Top(p).fn = "mount" /\ Top(p).hs = HelperOk
        /\ e \in zfs_snapshots_by_name /\ e \in zfs_snapshots_by_objsetid
        /\ se[e].se_refcount = 1 /\ se[e].se_taskqid = TASKQID_INVALID
        /\ \A k \in TaskIds : tq[k].st = "free"

\* does thread p hold zfs_snapshot_lock in either mode
HoldsRegistryLock(p) == zfs_snapshot_lock.w = p \/ p \in zfs_snapshot_lock.r

\* is thread p about to run the mount helper or the umount helper
InvokesHelper(p) == At(p, "m_helper") \/ At(p, "u_helper")

\* C21: a thread that invokes the external mount helper or the external
\* unmount helper (from the automount, from an unmount, from the expiry
\* callback or from the administrative remove) holds zfs_snapshot_lock
\* neither as reader nor as writer.
C21_HelperUnlocked ==
    \A p \in Procs : InvokesHelper(p) => ~HoldsRegistryLock(p)

\* the administrative remove is about to run the umount helper for a
\* registered snapshot, and holds the lock in neither mode
C21_Witness ==
    \E p \in Callers :
        /\ At(p, "u_helper")
        /\ Len(stk[p]) = 2 /\ stk[p][2].fn = "snapdir_remove"
        /\ ~HoldsRegistryLock(p)

\* is thread p inside a call of taskq_cancel_id or about to call
\* taskq_dispatch_delay through zfsctl_snapshot_unmount_delay_impl
InTaskCall(p) ==
    \/ At(p, "c_lock") \/ At(p, "c_wait")
    \/ At(p, "m_add_obj") \/ At(p, "r_arm") \/ At(p, "e_rearm")

\* C22: no thread calls taskq_cancel_id or taskq_dispatch_delay (inside
\* zfsctl_snapshot_unmount_cancel / zfsctl_snapshot_unmount_delay_impl)
\* while it holds zfs_snapshot_lock.
C22_NoRegistryLock ==
    \A p \in Procs : InTaskCall(p) => ~HoldsRegistryLock(p)

\* thread p, free before, enters the administrative operation fn
Enters(p, fn) ==
    /\ Free(p) /\ stk'[p] # stk[p]
    /\ stk'[p] # << >> /\ stk'[p][Len(stk'[p])].fn = fn

\* thread p takes the first step of rename, remove or create in the
\* snapshot directory
AdminCheck(p) ==
    \/ /\ At(p, "n_wlock") /\ Top(p).fn = "snapdir_rename"
       /\ stk'[p] # stk[p]
    \/ Enters(p, "snapdir_remove")
    \/ Enters(p, "snapdir_mkdir")

\* C23: with zfs_admin_snapshot = 0 the first step of zfsctl_snapdir_rename,
\* zfsctl_snapdir_remove and zfsctl_snapdir_mkdir is the return of EACCES:
\* no dataset is renamed, destroyed or created, no helper runs (no mount
\* changes), and the trees, the lock, the entries with their reference
\* counts and the tasks are unchanged.
C23_AdminDisabled ==
    [][\A p \in Callers :
         AdminCheck(p) /\ zfs_admin_snapshot = 0 =>
            /\ Len(stk'[p]) = 1
            /\ stk'[p][1].pc = "done" /\ stk'[p][1].rv = EACCES
            /\ stk'[p][1].hs = -1
            /\ UNCHANGED <<trees, zfs_snapshot_lock, se, tq, world, fault>>]_vars

\* administrative remove was refused while the snapshot is registered
\* with its expiry task pending
C23_Witness ==
    /\ zfs_admin_snapshot = 0
    /\ \E p \in Callers :
          /\ At(p, "done") /\ Top(p).fn = "snapdir_remove"
          /\ Top(p).rv = EACCES
    /\ \E e \in zfs_snapshots_by_name : Pending(e) # {}

\* thread p takes a step of zfsctl_snapdir_remove at pc
RemoveStep(p, pc) ==
    /\ stk[p] # << >> /\ stk'[p] # stk[p]
    /\ Top(p).fn = "snapdir_remove" /\ Top(p).pc = pc

\* C24: zfsctl_snapdir_remove, when allowed, first calls
\* zfsctl_snapshot_unmount on the snapshot's full name and destroys nothing
\* in that step. When the unmount has returned: after EBUSY the call
\* returns EBUSY and the snapshot still exists; a snapshot is destroyed only
\* after the unmount returned 0 or ENOENT, and then the call returns the
\* result of dsl_destroy_snapshot.
C24_RemoveUnmountsFirst ==
    [][\A p \in Callers :
         /\ Enters(p, "snapdir_remove") /\ zfs_admin_snapshot # 0 =>
               /\ Len(stk'[p]) = 2
               /\ stk'[p][1].fn = "unmount" /\ stk'[p][1].pc = "u_find"
               /\ stk'[p][1].nm = zfsctl_snapshot_name(stk'[p][2].nm)
               /\ dsname' = dsname
         /\ RemoveStep(p, "rm_destroy") =>
               /\ stk'[p][1].pc = "done"
               /\ Top(p).rv = EBUSY =>
                     stk'[p][1].rv = EBUSY /\ dsname' = dsname
               /\ dsname' # dsname =>
                     /\ Top(p).rv \in {0, ENOENT}
                     /\ stk'[p][1].rv = 0
                     /\ \A s \in Named(Top(p).nm) : dsname'[s] = NoComp
               /\ Top(p).rv \in {0, ENOENT} =>
                     stk'[p][1].rv = dsl_destroy_snapshot(Top(p).nm)]_vars

\* the unmount was busy: the remove has returned EBUSY, both snapshots
\* still exist and an entry is still registered
C24_Witness ==
    \E p \in Callers :
        /\ At(p, "done") /\ Top(p).fn = "snapdir_remove"
        /\ Top(p).rv = EBUSY
        /\ \A s \in Snaps : dsname[s] # NoComp
        /\ zfs_snapshots_by_name # {}

\* the tasks of entry e that are pending or whose callback is running
Active(e) == {k \in TaskIds : tq[k].se = e /\ tq[k].st \in {"pending", "running"}}

\* C25: every run of snapentry_expire leaves se_taskqid invalid, so a live
\* entry for which no task is pending or running has an invalid se_taskqid
\* (and zfsctl_snapshot_unmount_delay_impl with a delay > 0 would dispatch).
C25_IdleMeansEmpty ==
    \A e \in EntryIds :
        Live(e) /\ Active(e) = {} => se[e].se_taskqid = TASKQID_INVALID

\* thread p runs zfsctl_snapshot_unmount_delay_impl with a delay > 0 for
\* an entry that has a task scheduled
ArmsScheduled(p) ==
    /\ stk[p] # << >> /\ stk'[p] # stk[p]
    /\ \/ At(p, "r_arm") /\ Top(p).dl > 0
       \/ At(p, "e_rearm") /\ zfs_expire_snapshot > 0
    /\ se[Top(p).se].se_taskqid # TASKQID_INVALID

\* C26: zfsctl_snapshot_unmount_delay_impl called with a delay > 0 for an
\* entry whose se_taskqid is not TASKQID_INVALID dispatches nothing: the
\* taskq (the pending task and its deadline) is unchanged, and so is the
\* entry, its se_taskqid and its reference count included.
C26_ArmIdempotent ==
    [][\A p \in Procs :
         ArmsScheduled(p) =>
            /\ tq' = tq
            /\ se'[Top(p).se].se_taskqid = se[Top(p).se].se_taskqid
            /\ se'[Top(p).se].se_refcount = se[Top(p).se].se_refcount
            /\ se' = se]_vars

\* two reschedules of the same entry have both armed with a delay > 0 and
\* one task was dispatched between them: the second arm found it scheduled
C26_Witness ==
    \E p, q \in Callers :
        /\ p # q /\ At(p, "r_rele") /\ At(q, "r_rele")
        /\ Top(p).dl > 0 /\ Top(q).dl > 0 /\ Top(p).se = Top(q).se
        /\ Cardinality({k \in TaskIds : tq[k].st # "free"
                                        /\ tq[k].dl \in DelayArgs}) = 1
        /\ Pending(Top(p).se) # {}

\* the callback of task j is running and has not yet stored
\* TASKQID_INVALID in se_taskqid
BeforeClear(j) ==
    /\ tq[j].st = "running"
    /\ stk[TaskProc(j)] # << >>
    /\ stk[TaskProc(j)][Len(stk[TaskProc(j)])].pc \in {"e_early", "e_lock"}

\* C27 as stated: no entry has a task pending while the callback of an
\* earlier task of the same entry has started and not yet returned.
C27_NeverScheduledWhileFiring ==
    \A j, k \in TaskIds :
        ~(tq[j].st = "running" /\ tq[k].st = "pending" /\ tq[j].se = tq[k].se)

\* C27: the scheduler state of an entry is its se_taskqid. A pending task
\* of a live entry is the one se_taskqid names (it was dispatched when
\* se_taskqid was invalid and no other has been dispatched since); a
\* callback that has passed its store of TASKQID_INVALID is no longer
\* named by se_taskqid; and a task is pending beside a running callback of
\* the same entry only once that callback has cleared se_taskqid.
C27_SchedulerState ==
    /\ \A k \in TaskIds :
          tq[k].st = "pending" /\ Live(tq[k].se) =>
             se[tq[k].se].se_taskqid = k
    /\ \A j \in TaskIds :
          tq[j].st = "running" /\ ~BeforeClear(j) /\ Live(tq[j].se) =>
             se[tq[j].se].se_taskqid # j
    /\ \A j, k \in TaskIds :
          tq[j].st = "running" /\ tq[k].st = "pending" /\ tq[j].se = tq[k].se
             => ~BeforeClear(j)

\* the callback of one task has re-armed its entry and not yet returned:
\* the next task is pending and named by se_taskqid
C27_Witness ==
    \E j, k \in TaskIds :
        /\ tq[j].st = "running" /\ At(TaskProc(j), "e_rele2")
        /\ tq[k].st = "pending" /\ tq[k].se = tq[j].se
        /\ se[tq[k].se].se_taskqid = k

\* thread p takes the step pc of zfsctl_snapshot_rename
RenameStep(p, pc) == InRename(p, pc) /\ stk'[p] # stk[p]

\* entry e after the step differs from e before it in its reference count,
\* by d, and in nothing but its name
Reindexed(e, d) ==
    /\ se'[e].st = "live"
    /\ se'[e].se_refcount = se[e].se_refcount + d
    /\ se'[e].se_path = se[e].se_path
    /\ se'[e].se_spa = se[e].se_spa
    /\ se'[e].se_objsetid = se[e].se_objsetid
    /\ se'[e].se_taskqid = se[e].se_taskqid
    /\ \A x \in EntryIds \ {e} : se'[x] = se[x]
    /\ tq' = tq

\* the steps of a rename that found its entry: the hold of the lookup, the
\* removal with its release, the insertion with its hold, the final
\* release. The reference count goes +1, -1, +1, -1; the name changes in
\* the second step only; the path, the identifiers, se_taskqid and every
\* task are left alone; the entry is never freed
C28_Steps ==
    \A p \in Callers :
        /\ RenameStep(p, "rn_find") /\ stk'[p][1].pc = "rn_remove" =>
              /\ Reindexed(stk'[p][1].se, 1)
              /\ se'[stk'[p][1].se].se_name = se[stk'[p][1].se].se_name
        /\ RenameStep(p, "rn_remove") =>
              /\ Reindexed(Top(p).se, -1)
              /\ se'[Top(p).se].se_name = Top(p).nm2
        /\ RenameStep(p, "rn_add") =>
              /\ Reindexed(Top(p).se, 1)
              /\ se'[Top(p).se].se_name = se[Top(p).se].se_name
        /\ RenameStep(p, "rn_rele") =>
              /\ Reindexed(Top(p).se, -1)
              /\ se'[Top(p).se].se_name = se[Top(p).se].se_name
              /\ stk'[p][1].rv = 0

\* at the return of a successful rename the lookup by (spa, objsetid)
\* still finds the entry
C28_SameIdentity ==
    \A p \in Callers :
        InRename(p, "rn_rele") =>
            /\ Live(Top(p).se)
            /\ avl_find_by_objsetid(zfs_snapshots_by_objsetid,
                   se[Top(p).se].se_spa, se[Top(p).se].se_objsetid) = Top(p).se

\* C28: zfsctl_snapshot_rename(old, new) of a registered name changes the
\* entry's name and nothing else: find_by_objsetid returns the same entry
\* afterwards, the reference count is back at its value (+1 -1 +1 -1 over
\* the call's steps), se_path, se_taskqid and the tasks are untouched, and
\* the entry is not freed at any step.
C28_RenameKeepsEntry == []C28_SameIdentity /\ [][C28_Steps]_vars

\* a registry rename has returned 0: the entry is registered under the new
\* name with the registry's and its pending task's references
C28_Witness ==
    \E p \in Callers : \E e \in zfs_snapshots_by_objsetid :
        /\ At(p, "n_unlock") /\ Top(p).fn = "registry_rename"
        /\ Top(p).err = 0
        /\ se[e].se_name = zfsctl_snapshot_name(Top(p).nm2)
        /\ se[e].se_refcount = 2 /\ Pending(e) # {}
        /\ se[e].se_taskqid \in Pending(e)

\* the steps before which a frame holds a reference it took on its entry
\* by a lookup: zfsctl_snapshot_unmount, zfsctl_destroy,
\* zfsctl_snapshot_unmount_delay, the re-arm of snapentry_expire and
\* zfsctl_snapshot_rename
HolderPcs == {"u_helper", "u_exited", "d_rm_obj", "d_rele", "r_arm", "r_rele",
              "e_rearm", "e_rele2", "rn_remove", "rn_add", "rn_rele"}

\* the references on e handed out by lookups and not yet released
FrameRefs(e) ==
    Cardinality(UNION {{<<p, i>> : i \in {j \in 1..Len(stk[p]) :
                                              /\ stk[p][j].se = e
                                              /\ stk[p][j].pc \in HolderPcs}} :
                       p \in Procs})

\* the references on e held by dispatched tasks: pending, or running with
\* the callback's release still to come
TaskRefs(e) ==
    Cardinality({k \in TaskIds : /\ tq[k].se = e
                                 /\ tq[k].st \in {"pending", "running"}
                                 /\ hist.relf[k] = 0})

\* the reference of the registry
TreeRefs(e) == IF InTree(e) THEN 1 ELSE 0

\* C29: the reference count of every live entry is the registry's
\* reference, plus one for each dispatched task that is pending or whose
\* callback has not yet released, plus one for each lookup whose reference
\* has not yet been released.
C29_Conservation ==
    fault = "none" =>
        \A e \in EntryIds :
            Live(e) => se[e].se_refcount = TreeRefs(e) + TaskRefs(e) + FrameRefs(e)

\* a registered entry with a pending task and a lookup's reference
C29_Witness ==
    \E e \in EntryIds :
        /\ Live(e) /\ fault = "none"
        /\ TreeRefs(e) = 1 /\ TaskRefs(e) = 1 /\ FrameRefs(e) >= 1
        /\ se[e].se_refcount >= 3

\* task k is dispatched in this step
Dispatched(k) == tq[k].st = "free" /\ tq'[k].st = "pending"

\* C30: every dispatch of an expiry task is made by a thread that holds
\* zfs_snapshot_lock (zfsctl_snapshot_mount as writer,
\* zfsctl_snapshot_unmount_delay and the re-arm of snapentry_expire as
\* readers) for an entry that is in both trees; no task is dispatched for
\* an entry that has been removed from the registry.
C30_ArmWhileRegistered ==
    [][\A k \in TaskIds :
         Dispatched(k) =>
            /\ tq'[k].se \in zfs_snapshots_by_name'
            /\ tq'[k].se \in zfs_snapshots_by_objsetid'
            /\ se'[tq'[k].se].st = "live"
            /\ \E p \in Procs :
                  /\ stk'[p] # stk[p]
                  /\ HoldsRegistryLock(p)
                  /\ zfs_snapshot_lock' = zfs_snapshot_lock
                  /\ At(p, "m_add_obj") => zfs_snapshot_lock.w = p
                  /\ At(p, "r_arm") \/ At(p, "e_rearm") =>
                        p \in zfs_snapshot_lock.r]_vars

\* a reschedule has dispatched its task and still holds the lock as reader;
\* the entry is in both trees
C30_Witness ==
    \E p \in Callers : \E k \in TaskIds :
        /\ At(p, "r_rele") /\ p \in zfs_snapshot_lock.r
        /\ tq[k].st = "pending" /\ tq[k].se = Top(p).se
        /\ tq[k].dl = Top(p).dl
        /\ Top(p).se \in zfs_snapshots_by_name \cap zfs_snapshots_by_objsetid

\* C31: an entry that zfsctl_destroy has removed from the registry is
\* freed once its holders have released: the cancel made by zfsctl_destroy
\* for the removed entry never waits for ever, so no removed, live entry is
\* held by a canceller and a callback that wait for each other.
C31_RemovedIsFreed ==
    \A p \in Callers, k \in TaskIds :
        Deadlocked(p, k) => InTree(Top(p).se)

====
